---- MODULE Spec2Model ----
(***************************************************************************)
(* Model of the offline Merkle-airdrop engine of ink-merkle-airdrop:       *)
(*   - MerkleTree (frontend/src/lib/merkle_tree.ts): encodeLeaf, hashPair, *)
(*     buildTree, getProof, verifyProof, bytesEqual;                       *)
(*   - the artifact script (scripts/setup_airdrop.ts, kept in              *)
(*     contract-card.tsx): loadCSV, setupAirdrop and the entry point that  *)
(*     writes airdrop_setup.json.                                          *)
(*                                                                         *)
(* Representation.                                                         *)
(*   string      a sequence of one-character strings                       *)
(*   Uint8Array  a sequence of bytes (0..255)                              *)
(*   bigint      [neg, mag]: sign and big-endian base-256 magnitude        *)
(*               without leading zero bytes (0n has mag = << >>)           *)
(*   digest      keccak_256 is treated as collision-free: the digest of a  *)
(*               message m is m behind a two-byte length, an injective     *)
(*               and self-delimiting code, so that hashing the             *)
(*               concatenation of two digests is injective too             *)
(*   result      [ok |-> TRUE, val |-> v] or [ok |-> FALSE, err |-> e]     *)
(*               for a call that returns v or throws e                     *)
(***************************************************************************)
EXTENDS Integers, Sequences, FiniteSets, TLC

VARIABLES
  mode,         \* which program runs: "script" (setup_airdrop) or "tree" (a MerkleTree client)
  pc,           \* position of the running program
  csv,          \* the input file: [readable, rows]
  leafData,     \* LeafData[] returned by loadCSV, or given to the constructor
  merkleTree,   \* the MerkleTree object [leaves, tree, root], NoTree before construction
  totalSupply,  \* bigint computed by setupAirdrop, NoValue before
  json,         \* the object assembled by the entry point, NoValue before
  outFile,      \* content of airdrop_setup.json, NoFile while it does not exist
  writes,       \* number of writeFileSync calls performed on outFile
  error,        \* the exception that ended the run, NoError if none
  call,         \* the last MerkleTree call of a client: [op, args, result]
  previous,     \* what the earlier runs of the script left: their input and results
  claims,       \* the invocations of handleClaim of the ContractCard: [pc, log]
  events        \* who called queryContract, in order: 0 the effect, n the n-th handleClaim

vars == <<mode, pc, csv, leafData, merkleTree, totalSupply, json, outFile, writes, error, call,
          previous, claims, events>>

NoTree == [none |-> "tree"]
NoValue == [none |-> "value"]
NoFile == [none |-> "file"]
NoError == [none |-> "error"]
NoCall == [op |-> "none"]
null == <<"null">>

Ok(v) == [ok |-> TRUE, val |-> v]
Throw(e) == [ok |-> FALSE, err |-> e]

\* zero-based element access, as in the source
At(s, i) == s[i + 1]

(* Strings and bytes *)

HexChars == <<"0","1","2","3","4","5","6","7","8","9","a","b","c","d","e","f">>
UpperHexChars == <<"0","1","2","3","4","5","6","7","8","9","A","B","C","D","E","F">>

IsHexChar(c) == \E i \in 1..16 : HexChars[i] = c \/ UpperHexChars[i] = c

\* value of a hexadecimal digit, either case; 99 for any other character
DigitVal(c) ==
  IF IsHexChar(c)
  THEN (CHOOSE i \in 1..16 : HexChars[i] = c \/ UpperHexChars[i] = c) - 1
  ELSE 99

startsWith(s, prefix) ==
  /\ Len(s) >= Len(prefix)
  /\ \A i \in 1..Len(prefix) : s[i] = prefix[i]

\* Buffer.from(p).toString("hex"): two lower-case digits per byte
BytesToHex(bytes) ==
  [i \in 1..(2 * Len(bytes)) |->
     IF i % 2 = 1 THEN HexChars[(bytes[(i + 1) \div 2] \div 16) + 1]
                  ELSE HexChars[(bytes[i \div 2] % 16) + 1]]

\* the bytes written by the hex digit pairs of s
HexBodyToBytes(s) ==
  [i \in 1..(Len(s) \div 2) |-> 16 * DigitVal(s[2 * i - 1]) + DigitVal(s[2 * i])]

\* ethers getBytes(value) on a string: accepts /^0x([0-9a-f][0-9a-f])*$/i
\* and throws "invalid BytesLike value" on anything else
getBytes(value) ==
  IF /\ startsWith(value, <<"0", "x">>)
     /\ Len(value) % 2 = 0
     /\ \A i \in 3..Len(value) : IsHexChar(value[i])
  THEN Ok(HexBodyToBytes(SubSeq(value, 3, Len(value))))
  ELSE Throw("invalid BytesLike value")

\* keccak_256(message), collision-free: the message behind its length
keccak_256(message) == <<Len(message) \div 256, Len(message) % 256>> \o message


(* bigint *)
(* Schoolbook arithmetic on the bytes.  A multiplication or division by a  *)
(* small number runs over the two halves of the bytes in turn, and text is *)
(* converted six digits at a time (five for hexadecimal): the same         *)
(* arithmetic in fewer nested steps.                                       *)

StripZeros(mag) ==
  IF \A i \in 1..Len(mag) : mag[i] = 0 THEN <<>>
  ELSE SubSeq(mag, CHOOSE i \in 1..Len(mag) :
                     mag[i] # 0 /\ \A j \in 1..(i - 1) : mag[j] = 0, Len(mag))

\* the magnitude of a number below 2^24
SmallToMag(c) == StripZeros(<<c \div 65536, (c \div 256) % 256, c % 256>>)

\* the bytes lo..hi of mag * m, with the carry `cin` coming in from the
\* right: [carry |-> the carry going out to the left, bytes |-> the bytes]
RECURSIVE MulAddRange(_, _, _, _, _)
MulAddRange(mag, m, cin, lo, hi) ==
  IF lo > hi THEN [carry |-> cin, bytes |-> <<>>]
  ELSE IF lo = hi
  THEN LET t == mag[lo] * m + cin
       IN  [carry |-> t \div 256, bytes |-> <<t % 256>>]
  ELSE LET mid == (lo + hi) \div 2
           right == MulAddRange(mag, m, cin, mid + 1, hi)
       IN  IF right.carry < 0 THEN right
           ELSE LET left == MulAddRange(mag, m, right.carry, lo, mid)
                IN  [carry |-> left.carry, bytes |-> left.bytes \o right.bytes]

\* mag * m + a, for a multiplier m and an addend a of at most 10^6
MagMulAdd(mag, m, a) ==
  LET r == MulAddRange(mag, m, a, 1, Len(mag))
  IN  SmallToMag(r.carry) \o r.bytes

\* a + b on magnitudes; the carry into a position comes from the nearest
\* position to its right that overflows, through positions that sum to 255
MagAdd(a, b) ==
  LET n == IF Len(a) > Len(b) THEN Len(a) ELSE Len(b)
      x == [i \in 1..n |-> IF i > n - Len(a) THEN a[i - (n - Len(a))] ELSE 0]
      y == [i \in 1..n |-> IF i > n - Len(b) THEN b[i - (n - Len(b))] ELSE 0]
      carry == [i \in 0..n |->
                  IF \E j \in (i + 1)..n :
                       /\ x[j] + y[j] > 255
                       /\ \A k \in (i + 1)..(j - 1) : x[k] + y[k] = 255
                  THEN 1 ELSE 0]
  IN  SmallToMag(carry[0]) \o [i \in 1..n |-> (x[i] + y[i] + carry[i]) % 256]

\* a < b on magnitudes
MagLess(a, b) ==
  \/ Len(a) < Len(b)
  \/ /\ Len(a) = Len(b)
     /\ \E i \in 1..Len(a) : a[i] < b[i] /\ \A j \in 1..(i - 1) : a[j] = b[j]

\* a - b on magnitudes, for a >= b; the borrow into a position comes from
\* the nearest position to its right that underflows, through equal bytes
MagSub(a, b) ==
  LET n == Len(a)
      y == [i \in 1..n |-> IF i > n - Len(b) THEN b[i - (n - Len(b))] ELSE 0]
      borrow == [i \in 1..n |->
                   IF \E j \in (i + 1)..n :
                        /\ a[j] < y[j]
                        /\ \A k \in (i + 1)..(j - 1) : a[k] = y[k]
                   THEN 1 ELSE 0]
  IN  StripZeros([i \in 1..n |-> (a[i] - y[i] - borrow[i]) % 256])

\* the bigint operator +
BigAdd(a, b) ==
  IF a.neg = b.neg
  THEN LET m == MagAdd(a.mag, b.mag)
       IN  [neg |-> a.neg /\ m # <<>>, mag |-> m]
  ELSE IF MagLess(a.mag, b.mag)
  THEN [neg |-> b.neg, mag |-> MagSub(b.mag, a.mag)]
  ELSE LET m == MagSub(a.mag, b.mag)
       IN  [neg |-> a.neg /\ m # <<>>, mag |-> m]

Zero == [neg |-> FALSE, mag |-> <<>>]

\* the digits of s from position `from` on are all digits of the radix
AllDigits(s, from, radix) ==
  /\ from <= Len(s)
  /\ \A i \in from..Len(s) : DigitVal(s[i]) < radix

\* the number written by the (at most six) digits s[from..upto]
RECURSIVE SmallParse(_, _, _, _)
SmallParse(s, from, upto, radix) ==
  IF upto < from THEN 0
  ELSE SmallParse(s, from, upto - 1, radix) * radix + DigitVal(s[upto])

\* the magnitude written by the digits s[from..upto], `group` digits at a time
RECURSIVE ParseDigits(_, _, _, _, _)
ParseDigits(s, from, upto, radix, group) ==
  IF upto < from THEN <<>>
  ELSE LET lo == IF upto - group + 1 < from THEN from ELSE upto - group + 1
           before == ParseDigits(s, from, lo - 1, radix, group)
       IN  IF before = <<>> THEN SmallToMag(SmallParse(s, lo, upto, radix))
           ELSE MagMulAdd(before, radix ^ (upto - lo + 1), SmallParse(s, lo, upto, radix))

\* BigInt(string) (StringToBigInt): the empty string is 0n; decimal digits
\* with an optional sign; 0x, 0o, 0b prefixed digits without a sign; a
\* SyntaxError on anything else
BigInt(s) ==
  LET radix == IF Len(s) >= 2 /\ s[1] = "0" /\ s[2] \in {"x", "X"} THEN 16
               ELSE IF Len(s) >= 2 /\ s[1] = "0" /\ s[2] \in {"o", "O"} THEN 8
               ELSE IF Len(s) >= 2 /\ s[1] = "0" /\ s[2] \in {"b", "B"} THEN 2
               ELSE 10
      signed == radix = 10 /\ Len(s) >= 1 /\ s[1] \in {"+", "-"}
      from == IF radix # 10 THEN 3 ELSE IF signed THEN 2 ELSE 1
  IN  IF s = <<>> THEN Ok(Zero)
      ELSE IF AllDigits(s, from, radix)
      THEN LET m == StripZeros(ParseDigits(s, from, Len(s), radix,
                                           IF radix = 16 THEN 5 ELSE 6))
           IN  Ok([neg |-> signed /\ s[1] = "-" /\ m # <<>>, mag |-> m])
      ELSE Throw("SyntaxError: Cannot convert to a BigInt")

\* the quotient bytes lo..hi of mag divided by d, with the remainder `rin`
\* coming in from the left: [rem |-> the remainder going out, bytes |-> ...]
RECURSIVE DivRange(_, _, _, _, _)
DivRange(mag, d, rin, lo, hi) ==
  IF lo > hi THEN [rem |-> rin, bytes |-> <<>>]
  ELSE IF lo = hi
  THEN LET t == rin * 256 + mag[lo]
       IN  [rem |-> t % d, bytes |-> <<t \div d>>]
  ELSE LET mid == (lo + hi) \div 2
           left == DivRange(mag, d, rin, lo, mid)
       IN  IF left.rem < 0 THEN left
           ELSE LET right == DivRange(mag, d, left.rem, mid + 1, hi)
                IN  [rem |-> right.rem, bytes |-> left.bytes \o right.bytes]

\* mag divided by a divisor d of at most 10^6: [q |-> quotient, r |-> remainder]
MagDivSmall(mag, d) ==
  LET r == DivRange(mag, d, 0, 1, Len(mag))
  IN  [q |-> StripZeros(r.bytes), r |-> r.rem]

\* the six decimal digits of a number below 10^6
SixDigits(r) == [i \in 1..6 |-> HexChars[((r \div (10 ^ (6 - i))) % 10) + 1]]

StripZeroChars(s) ==
  IF \A i \in 1..Len(s) : s[i] = "0" THEN <<>>
  ELSE SubSeq(s, CHOOSE i \in 1..Len(s) :
                   s[i] # "0" /\ \A j \in 1..(i - 1) : s[j] = "0", Len(s))

\* the decimal digits of mag, in groups of six, the first group zero-padded
RECURSIVE MagToDecimal(_)
MagToDecimal(mag) ==
  IF mag = <<>> THEN <<>>
  ELSE LET qr == MagDivSmall(mag, 1000000)
       IN  MagToDecimal(qr.q) \o SixDigits(qr.r)

\* bigint.toString(16) whatever the radix asked for
toStringHex(value, radix) ==
  (IF value.neg THEN <<"-">> ELSE <<>>)
  \o (IF value.mag = <<>> THEN <<"0">>
      ELSE StripZeroChars(BytesToHex(value.mag)))

\* bigint.toString(radix), for the radixes the program uses: 10 and 16
toString(value, radix) ==
  (IF value.neg THEN <<"-">> ELSE <<>>)
  \o (IF value.mag = <<>> THEN <<"0">>
      ELSE IF radix = 16 THEN StripZeroChars(BytesToHex(value.mag))
      ELSE StripZeroChars(MagToDecimal(value.mag)))

padStart(s, targetLength, c) ==
  [i \in 1..(IF Len(s) >= targetLength THEN 0 ELSE targetLength - Len(s)) |-> c] \o s

\* ethers toBeHex(value, width): throws on a negative value and on a value
\* that needs more than width bytes, else "0x" and 2 * width hex digits
toBeHex(value, width) ==
  IF value.neg THEN Throw("unsigned value cannot be negative")
  ELSE LET result == toString(value, 16)
       IN  IF width * 2 >= Len(result)
           THEN Ok(<<"0", "x">> \o padStart(result, width * 2, "0"))
           ELSE Throw("value exceeds width")

(***************************************************************************)
(* MerkleTree (merkle_tree.ts)                                             *)
(***************************************************************************)

\* MerkleTree.encodeLeaf(recipient, value): the digest, or the exception of
\* getBytes(recipient) or of toBeHex(value, 32), in that order
encodeLeaf(recipient, value) ==
  LET addr == getBytes(recipient)
      hex == toBeHex(value, 32)
  IN  IF ~addr.ok THEN Throw([message |-> addr.err, value |-> recipient])
      ELSE IF ~hex.ok THEN Throw([message |-> hex.err, value |-> value])
      ELSE LET val == getBytes(hex.val).val
               encoded == addr.val \o val
           IN  Ok(keccak_256(encoded))

\* MerkleTree.hashPair(left, right)
hashPair(left, right) ==
  LET concatenated == left \o right
  IN  keccak_256(concatenated)

\* the level above currentLevel with the unpaired last element hashed with
\* a digest of zero bytes in place of itself
NextLevelZeroPad(currentLevel) ==
  [j \in 1..((Len(currentLevel) + 1) \div 2) |->
     IF 2 * j <= Len(currentLevel)
     THEN hashPair(currentLevel[2 * j - 1], currentLevel[2 * j])
     ELSE hashPair(currentLevel[2 * j - 1],
                   [n \in 1..Len(currentLevel[2 * j - 1]) |-> 0])]

\* the level above currentLevel with the unpaired last element carried up
\* unhashed
NextLevelCarryUp(currentLevel) ==
  [j \in 1..((Len(currentLevel) + 1) \div 2) |->
     IF 2 * j <= Len(currentLevel)
     THEN hashPair(currentLevel[2 * j - 1], currentLevel[2 * j])
     ELSE currentLevel[2 * j - 1]]

\* one pass of the for loop of buildTree over currentLevel
NextLevel(currentLevel) ==
  [j \in 1..((Len(currentLevel) + 1) \div 2) |->
     LET i == 2 * (j - 1)
         left == At(currentLevel, i)
         right == IF i + 1 < Len(currentLevel) THEN At(currentLevel, i + 1) ELSE left
     IN  hashPair(left, right)]

\* the while loop of buildTree: [tree, root] once one element remains
RECURSIVE BuildLevels(_, _)
BuildLevels(currentLevel, tree) ==
  IF Len(currentLevel) > 1
  THEN LET nextLevel == NextLevel(currentLevel)
       IN  BuildLevels(nextLevel, Append(tree, nextLevel))
  ELSE [tree |-> tree, root |-> At(currentLevel, 0)]

\* buildTree without its early return: the empty level is pushed and the
\* root is currentLevel[0] of an empty array
undefined == <<"undefined">>
buildTreeNoEmptyReturn(this) ==
  IF Len(this.leaves) = 0
  THEN [this EXCEPT !.tree = <<this.leaves>>, !.root = undefined]
  ELSE LET currentLevel == this.leaves
           built == BuildLevels(currentLevel, Append(this.tree, currentLevel))
       IN  [this EXCEPT !.tree = built.tree, !.root = built.root]

\* MerkleTree.buildTree() on the object this
buildTree(this) ==
  IF Len(this.leaves) = 0
  THEN [this EXCEPT !.root = null]
  ELSE LET currentLevel == this.leaves
           built == BuildLevels(currentLevel, Append(this.tree, currentLevel))
       IN  [this EXCEPT !.tree = built.tree, !.root = built.root]

\* new MerkleTree(leafData): the object, or the exception of the first
\* encodeLeaf that throws
MerkleTreeNew(data) ==
  LET encoded == [i \in 1..Len(data) |-> encodeLeaf(data[i].recipient, data[i].value)]
  IN  IF \E i \in 1..Len(data) : ~encoded[i].ok
      THEN LET first == CHOOSE i \in 1..Len(data) :
                          ~encoded[i].ok /\ \A j \in 1..(i - 1) : encoded[j].ok
           IN  Throw(encoded[first].err)
      ELSE Ok(buildTree([leaves |-> [i \in 1..Len(data) |-> encoded[i].val],
                         tree |-> <<>>,
                         root |-> null]))

\* the loop of getProof putting each sibling in front of the ones below it
RECURSIVE ProofFromRootFirst(_, _, _, _)
ProofFromRootFirst(this, level, currentIndex, proof) ==
  IF level < Len(this.tree) - 1
  THEN LET currentLevel == At(this.tree, level)
           siblingIndex == IF currentIndex % 2 = 0 THEN currentIndex + 1
                                                   ELSE currentIndex - 1
       IN  ProofFromRootFirst(this, level + 1, currentIndex \div 2,
                              IF siblingIndex < Len(currentLevel)
                              THEN <<At(currentLevel, siblingIndex)>> \o proof
                              ELSE <<At(currentLevel, currentIndex)>> \o proof)
  ELSE proof

\* the loop of getProof without the duplicate: nothing is pushed for the
\* unpaired last element of a level
RECURSIVE ProofFromNoDuplicate(_, _, _, _)
ProofFromNoDuplicate(this, level, currentIndex, proof) ==
  IF level < Len(this.tree) - 1
  THEN LET currentLevel == At(this.tree, level)
           siblingIndex == IF currentIndex % 2 = 0 THEN currentIndex + 1
                                                   ELSE currentIndex - 1
       IN  ProofFromNoDuplicate(this, level + 1, currentIndex \div 2,
                                IF siblingIndex < Len(currentLevel)
                                THEN Append(proof, At(currentLevel, siblingIndex))
                                ELSE proof)
  ELSE proof

\* the for loop of getProof from `level` on
RECURSIVE ProofFrom(_, _, _, _)
ProofFrom(this, level, currentIndex, proof) ==
  IF level < Len(this.tree) - 1
  THEN LET currentLevel == At(this.tree, level)
           siblingIndex == IF currentIndex % 2 = 0 THEN currentIndex + 1
                                                   ELSE currentIndex - 1
       IN  ProofFrom(this, level + 1, currentIndex \div 2,
                     IF siblingIndex < Len(currentLevel)
                     THEN Append(proof, At(currentLevel, siblingIndex))
                     ELSE Append(proof, At(currentLevel, currentIndex)))
  ELSE proof

\* getProof with its range check made against the number of levels
getProofLevelBound(this, index) ==
  IF index < 0 \/ index >= Len(this.tree)
  THEN Throw([message |-> "Leaf index out of bounds."])
  ELSE Ok(ProofFrom(this, 0, index, <<>>))

\* MerkleTree.getProof(index) on the object this
getProof(this, index) ==
  IF index < 0 \/ index >= Len(this.leaves)
  THEN Throw([message |-> "Leaf index out of bounds."])
  ELSE Ok(ProofFrom(this, 0, index, <<>>))

\* bytesEqual that compares the lengths only
bytesEqualLengthOnly(a, b) == Len(a) = Len(b)

\* MerkleTree.bytesEqual(a, b)
bytesEqual(a, b) ==
  IF Len(a) # Len(b) THEN FALSE
  ELSE \A i \in 1..Len(a) : a[i] = b[i]

\* the loop of verifyProof without the halving of idx
RECURSIVE VerifyFromNoHalving(_, _, _, _)
VerifyFromNoHalving(computed, proof, k, idx) ==
  IF k > Len(proof) THEN computed
  ELSE VerifyFromNoHalving(IF idx % 2 = 0 THEN hashPair(computed, proof[k])
                                          ELSE hashPair(proof[k], computed),
                           proof, k + 1, idx)

\* the loop of verifyProof with the current node always the left child
RECURSIVE VerifyFromLeftOnly(_, _, _, _)
VerifyFromLeftOnly(computed, proof, k, idx) ==
  IF k > Len(proof) THEN computed
  ELSE VerifyFromLeftOnly(hashPair(computed, proof[k]), proof, k + 1, idx \div 2)

\* the for loop of verifyProof over the siblings from position k on
RECURSIVE VerifyFrom(_, _, _, _)
VerifyFrom(computed, proof, k, idx) ==
  IF k > Len(proof) THEN computed
  ELSE VerifyFrom(IF idx % 2 = 0 THEN hashPair(computed, proof[k])
                                 ELSE hashPair(proof[k], computed),
                  proof, k + 1, idx \div 2)

\* verifyProof refusing an index that is no position of a level 0 of
\* 2^len(proof) leaves
verifyProofBoundedIndex(leaf, proof, index, root) ==
  IF root = null THEN Throw([message |-> "TypeError: null has no length"])
  ELSE IF index >= 2 ^ Len(proof) THEN Ok(FALSE)
  ELSE Ok(bytesEqual(VerifyFrom(leaf, proof, 1, index), root))

\* verifyProof hashing the leaf once more before the fold
verifyProofHashedLeaf(leaf, proof, index, root) ==
  IF root = null THEN Throw([message |-> "TypeError: null has no length"])
  ELSE Ok(bytesEqual(VerifyFrom(keccak_256(leaf), proof, 1, index), root))

\* MerkleTree.verifyProof(leaf, proof, index, root); reading root.length
\* of a null root is a TypeError
verifyProof(leaf, proof, index, root) ==
  IF root = null THEN Throw([message |-> "TypeError: null has no length"])
  ELSE Ok(bytesEqual(VerifyFrom(leaf, proof, 1, index), root))

(***************************************************************************)
(* Inputs                                                                  *)
(***************************************************************************)

\* bounds
MaxLeaves == 5
MaxIndex == 8
MaxRows == 3
MaxRuns == 2
MaxProof == 2
MaxMultiple == 3
MaxClaims == 2
MaxEffects == 1

ListsUpTo(S, n) == UNION {[1..k -> S] : k \in 0..n}

\* the accounts of the fixture `setup` of merkle_tree.ts
alice_account == <<"0","x","9","6","2","1","d","d","e","6","3","6","d","e","0","9","8","b","4","3","e","f","b","0","f","a","9","b","6","1","f","a","c","f","e","3","2","8","f","9","9","d">>
bob_account == <<"0","x","4","1","d","c","c","b","d","4","9","b","2","6","c","5","0","d","3","4","3","5","5","e","d","8","6","f","f","0","f","a","9","e","4","8","9","d","1","e","0","1">>
creator == <<"0","x","e","2","2","3","5","a","2","f","f","e","0","3","5","4","b","2","7","a","6","a","1","c","5","4","3","b","e","6","b","f","2","9","2","0","f","f","2","1","3","4">>

airdrop_amount_alice == BigInt(<<"1","0","0","0","0","0","0","0","0">>).val
airdrop_amount_bob == BigInt(<<"5","0","0","0","0","0","0","0","0">>).val

\* 2^256 - 1 and 2^256 in decimal
MaxUint256Text == <<"1","1","5","7","9","2","0","8","9","2","3","7","3","1","6","1","9","5","4","2","3","5","7","0","9","8","5","0","0","8","6","8","7","9","0","7","8","5","3","2","6","9","9","8","4","6","6","5","6","4","0","5","6","4","0","3","9","4","5","7","5","8","4","0","0","7","9","1","3","1","2","9","6","3","9","9","3","5">>
Pow256Text == <<"1","1","5","7","9","2","0","8","9","2","3","7","3","1","6","1","9","5","4","2","3","5","7","0","9","8","5","0","0","8","6","8","7","9","0","7","8","5","3","2","6","9","9","8","4","6","6","5","6","4","0","5","6","4","0","3","9","4","5","7","5","8","4","0","0","7","9","1","3","1","2","9","6","3","9","9","3","6">>

\* recipients that are no 20-byte hex value: 2 bytes, 21 bytes, no bytes,
\* a non-hex digit, an odd number of digits
ShortAddress == <<"0","x","1","2","3","4">>
LongAddress == alice_account \o <<"0","0">>
EmptyAddress == <<"0","x">>
NonHexAddress == <<"0","x","z","z">>
OddAddress == <<"0","x","1","2","3">>
\* alice's address in upper-case digits, and without the 0x prefix
UpperAddress == <<"0","x","9","6","2","1","D","D","E","6","3","6","D","E","0","9","8","B","4","3","E","F","B","0","F","A","9","B","6","1","F","A","C","F","E","3","2","8","F","9","9","D">>
BareAddress == SubSeq(alice_account, 3, Len(alice_account))

\* LeafData given to the constructor by a client of MerkleTree
TreeRecords ==
  { [recipient |-> alice_account, value |-> airdrop_amount_alice],
    [recipient |-> bob_account, value |-> airdrop_amount_bob],
    [recipient |-> creator, value |-> [neg |-> TRUE, mag |-> <<5>>]] }

\* records whose digest a client passes to verifyProof
LeafRecords ==
  [recipient : {alice_account, bob_account, creator},
   value : {airdrop_amount_alice, airdrop_amount_bob}]

\* arguments a client passes to encodeLeaf
RecipientInputs ==
  {alice_account, bob_account, creator, UpperAddress, BareAddress, ShortAddress,
   LongAddress, EmptyAddress, NonHexAddress, OddAddress}
ValueInputs ==
  {airdrop_amount_alice, airdrop_amount_bob, Zero, BigInt(<<"1">>).val,
   BigInt(<<"9","9","9","9">>).val, BigInt(<<"2","5","6">>).val,
   BigInt(MaxUint256Text).val, BigInt(Pow256Text).val,
   [neg |-> TRUE, mag |-> <<5>>], [neg |-> TRUE, mag |-> <<1>>],
   BigInt(<<"0","x","f","f","f","f">>).val}

(***************************************************************************)
(* A client of MerkleTree: the constructor, then any calls                 *)
(***************************************************************************)

TreeInit ==
  /\ mode = "tree"
  /\ pc = "new"
  /\ csv = NoValue
  /\ leafData = <<>>
  /\ merkleTree = NoTree
  /\ totalSupply = NoValue
  /\ json = NoValue
  /\ outFile = NoFile
  /\ writes = 0
  /\ error = NoError
  /\ call = NoCall
  /\ previous = <<>>
  /\ claims = <<>>
  /\ events = <<>>

\* new MerkleTree(data)
New(data) ==
  /\ mode = "tree"
  /\ pc = "new"
  /\ LET r == MerkleTreeNew(data)
     IN  IF r.ok
         THEN /\ merkleTree' = r.val
              /\ pc' = "ready"
              /\ error' = error
         ELSE /\ merkleTree' = merkleTree
              /\ pc' = "aborted"
              /\ error' = r.err
  /\ leafData' = data
  /\ call' = [op |-> "new"]
  /\ UNCHANGED <<mode, csv, totalSupply, json, outFile, writes, previous,
                 claims, events>>

\* MerkleTree.encodeLeaf(recipient, value), a static call
EncodeLeaf(recipient, value) ==
  /\ mode = "encode"
  /\ call' = [op |-> "encodeLeaf", recipient |-> recipient, value |-> value,
              result |-> encodeLeaf(recipient, value)]
  /\ UNCHANGED <<mode, pc, csv, leafData, merkleTree, totalSupply, json, outFile,
                 writes, error, previous,
                 claims, events>>

\* tree.getProof(index) taking the root level off this.tree as it goes
GetProofConsuming(index) ==
  /\ mode = "tree"
  /\ pc = "ready"
  /\ call' = [op |-> "getProof", index |-> index,
              result |-> getProof(merkleTree, index)]
  /\ merkleTree' = IF getProof(merkleTree, index).ok /\ Len(merkleTree.tree) > 1
                   THEN [merkleTree EXCEPT
                           !.tree = SubSeq(merkleTree.tree, 1, Len(merkleTree.tree) - 1)]
                   ELSE merkleTree
  /\ UNCHANGED <<mode, pc, csv, leafData, totalSupply, json, outFile,
                 writes, error, previous,
                 claims, events>>

\* tree.getProof(index)
GetProof(index) ==
  /\ mode = "tree"
  /\ pc = "ready"
  /\ call' = [op |-> "getProof", index |-> index,
              result |-> getProof(merkleTree, index)]
  /\ UNCHANGED <<mode, pc, csv, leafData, merkleTree, totalSupply, json, outFile,
                 writes, error, previous,
                 claims, events>>

\* MerkleTree.verifyProof(leaf, proof, index, tree.root), with the proof
\* the client got from getProof(call.index)
VerifyProof(leaf, index) ==
  /\ mode = "tree"
  /\ pc = "ready"
  /\ call.op = "getProof"
  /\ call.result.ok
  /\ call' = [op |-> "verifyProof", leaf |-> leaf, proof |-> call.result.val,
              proofIndex |-> call.index, index |-> index, root |-> merkleTree.root,
              result |-> verifyProof(leaf, call.result.val, index, merkleTree.root)]
  /\ UNCHANGED <<mode, pc, csv, leafData, merkleTree, totalSupply, json, outFile,
                 writes, error, previous,
                 claims, events>>

\* MerkleTree.verifyProof(node, rest, index', tree.root) by a client that
\* passes, in place of a leaf, the node k levels above the leaf of the
\* proof it got from getProof(call.index), with the siblings from level k
\* on and the index of that node in level k
VerifyProofOfNode(k) ==
  /\ mode = "tree"
  /\ pc = "ready"
  /\ call.op = "getProof"
  /\ call.result.ok
  /\ k <= Len(call.result.val)
  /\ LET node == VerifyFrom(At(merkleTree.leaves, call.index),
                            SubSeq(call.result.val, 1, k), 1, call.index)
         rest == SubSeq(call.result.val, k + 1, Len(call.result.val))
         index == call.index \div (2 ^ k)
     IN  call' = [op |-> "verifyProof", leaf |-> node, proof |-> rest,
                  proofIndex |-> call.index, index |-> index, root |-> merkleTree.root,
                  result |-> verifyProof(node, rest, index, merkleTree.root)]
  /\ UNCHANGED <<mode, pc, csv, leafData, merkleTree, totalSupply, json, outFile,
                 writes, error, previous,
                 claims, events>>

TreeNext ==
  \/ \E data \in ListsUpTo(TreeRecords, MaxLeaves) : New(data)
  \/ \E index \in (-1)..MaxIndex : GetProof(index)
  \/ \E r \in LeafRecords, index \in 0..MaxIndex :
       VerifyProof(encodeLeaf(r.recipient, r.value).val, index)
  \/ \E k \in 1..MaxLeaves : VerifyProofOfNode(k)

TreeSpec == TreeInit /\ [][TreeNext]_vars

\* a caller of the static encodeLeaf alone
EncodeInit ==
  /\ mode = "encode"
  /\ pc = "ready"
  /\ csv = NoValue
  /\ leafData = <<>>
  /\ merkleTree = NoTree
  /\ totalSupply = NoValue
  /\ json = NoValue
  /\ outFile = NoFile
  /\ writes = 0
  /\ error = NoError
  /\ call = NoCall
  /\ previous = <<>>
  /\ claims = <<>>
  /\ events = <<>>

EncodeNext ==
  \E recipient \in RecipientInputs, value \in ValueInputs :
    EncodeLeaf(recipient, value)

EncodeSpec == EncodeInit /\ [][EncodeNext]_vars

(***************************************************************************)
(* A caller of the static verifyProof with arguments of its own            *)
(***************************************************************************)

\* the leaf digests of the fixture and the nodes above them
leaf_alice == encodeLeaf(alice_account, airdrop_amount_alice).val
leaf_bob == encodeLeaf(bob_account, airdrop_amount_bob).val
node_ab == hashPair(leaf_alice, leaf_bob)

\* digests, sibling lists and roots a caller passes to verifyProof
LeafInputs == {leaf_alice, leaf_bob, node_ab}
ProofInputs == ListsUpTo({leaf_alice, leaf_bob, node_ab}, MaxProof)
RootInputs ==
  {leaf_alice, node_ab, hashPair(leaf_bob, leaf_alice), hashPair(node_ab, node_ab),
   hashPair(leaf_bob, node_ab)}

\* the caller holds the arguments of its call; a MerkleTree object may
\* exist in the program or not
VerifyInit ==
  /\ mode = "verify"
  /\ pc = "ready"
  /\ csv = NoValue
  /\ leafData \in {<<>>, << [recipient |-> alice_account, value |-> airdrop_amount_alice],
                           [recipient |-> bob_account, value |-> airdrop_amount_bob] >>}
  /\ merkleTree = IF leafData = <<>> THEN NoTree ELSE MerkleTreeNew(leafData).val
  /\ totalSupply = NoValue
  /\ json = NoValue
  /\ outFile = NoFile
  /\ writes = 0
  /\ error = NoError
  /\ call \in [op : {"pending"}, leaf : LeafInputs, proof : ProofInputs,
               index : 0..MaxIndex, root : RootInputs]
  /\ previous = <<>>
  /\ claims = <<>>
  /\ events = <<>>

\* MerkleTree.verifyProof(leaf, proof, index, root), a static call
VerifyProofStatic ==
  /\ mode = "verify"
  /\ call.op = "pending"
  /\ call' = [op |-> "verifyProof", leaf |-> call.leaf, proof |-> call.proof,
              index |-> call.index, root |-> call.root,
              result |-> verifyProof(call.leaf, call.proof, call.index, call.root)]
  /\ UNCHANGED <<mode, pc, csv, leafData, merkleTree, totalSupply, json, outFile,
                 writes, error, previous,
                 claims, events>>

VerifyNext == VerifyProofStatic

VerifySpec == VerifyInit /\ [][VerifyNext]_vars

(***************************************************************************)
(* The artifact script (scripts/setup_airdrop.ts)                          *)
(***************************************************************************)

\* rows of the input file as csv-parse returns them (columns: true,
\* trim: true): a missing or empty field is the empty string
RowInputs ==
  { [address |-> alice_account, amount |-> <<"1","0","0","0","0","0","0","0","0">>],
    [address |-> SubSeq(bob_account, 3, Len(bob_account)),
     amount |-> <<"5","0","0","0","0","0","0","0","0">>],
    [address |-> creator, amount |-> MaxUint256Text],
    [address |-> ShortAddress, amount |-> <<"0","0","7">>],
    [address |-> alice_account, amount |-> <<"a","b","c">>],
    [address |-> alice_account, amount |-> <<"-","5">>],
    [address |-> alice_account, amount |-> Pow256Text],
    [address |-> NonHexAddress, amount |-> <<"1">>],
    [address |-> <<>>, amount |-> <<"1">>] }

CsvInputs ==
  {[readable |-> FALSE, rows |-> <<>>]}
  \cup {[readable |-> TRUE, rows |-> rows] : rows \in ListsUpTo(RowInputs, MaxRows)}

\* the callback of records.map in loadCSV, on one row
LoadRow(row) ==
  IF row.address = <<>> \/ row.amount = <<>>
  THEN Throw([message |-> "Invalid CSV row", value |-> row])
  ELSE LET value == BigInt(row.amount)
       IN  IF ~value.ok THEN Throw([message |-> value.err, value |-> row.amount])
           ELSE Ok([recipient |-> IF startsWith(row.address, <<"0", "x">>)
                                  THEN row.address
                                  ELSE <<"0", "x">> \o row.address,
                    value |-> value.val])

\* loadCSV(filePath): the LeafData[], or the exception of readFileSync or
\* of the first row whose callback throws
loadCSV(file) ==
  IF ~file.readable THEN Throw([message |-> "ENOENT: no such file or directory"])
  ELSE LET records == file.rows
           mapped == [i \in 1..Len(records) |-> LoadRow(records[i])]
       IN  IF \E i \in 1..Len(records) : ~mapped[i].ok
           THEN LET first == CHOOSE i \in 1..Len(records) :
                               ~mapped[i].ok /\ \A j \in 1..(i - 1) : mapped[j].ok
                IN  Throw(mapped[first].err)
           ELSE Ok([i \in 1..Len(records) |-> mapped[i].val])

\* leafData.reduce((acc, leaf) => acc + leaf.value, 0n) over the first n leaves
RECURSIVE SumValues(_, _)
SumValues(data, n) ==
  IF n = 0 THEN Zero ELSE BigAdd(SumValues(data, n - 1), data[n].value)

\* `0x${Buffer.from(p).toString("hex")}`
HexOf(p) == <<"0", "x">> \o BytesToHex(p)

\* the object `json` with the proof of entry 0 given to every entry
JsonOfFirstProof(data, tree, total) ==
  [root |-> HexOf(tree.root),
   totalSupply |-> toString(total, 10),
   leaves |-> [k \in 1..Len(data) |->
                 LET proof == getProof(tree, 0).val
                 IN  [recipient |-> data[k].recipient,
                      value |-> toString(data[k].value, 10),
                      proof |-> [n \in 1..Len(proof) |-> HexOf(proof[n])]]]]

\* the object `json` of the entry point
JsonOf(data, tree, total) ==
  [root |-> HexOf(tree.root),
   totalSupply |-> toString(total, 10),
   leaves |-> [k \in 1..Len(data) |->
                 LET i == k - 1
                     proof == getProof(tree, i).val
                 IN  [recipient |-> data[k].recipient,
                      value |-> toString(data[k].value, 10),
                      proof |-> [n \in 1..Len(proof) |-> HexOf(proof[n])]]]]

Init ==
  /\ mode = "script"
  /\ pc = "loadCSV"
  /\ csv \in CsvInputs
  /\ leafData = <<>>
  /\ merkleTree = NoTree
  /\ totalSupply = NoValue
  /\ json = NoValue
  /\ outFile = NoFile
  /\ writes = 0
  /\ error = NoError
  /\ call = NoCall
  /\ previous = <<>>
  /\ claims = <<>>
  /\ events = <<>>

\* setupAirdrop: const leafData = loadCSV(absPath)
LoadCSV ==
  /\ mode = "script"
  /\ pc = "loadCSV"
  /\ LET r == loadCSV(csv)
     IN  IF r.ok
         THEN /\ leafData' = r.val
              /\ pc' = "checkEmpty"
              /\ error' = error
         ELSE /\ leafData' = leafData
              /\ pc' = "aborted"
              /\ error' = r.err
  /\ UNCHANGED <<mode, csv, merkleTree, totalSupply, json, outFile, writes, call, previous,
                 claims, events>>

\* setupAirdrop without the test of leafData.length
CheckEmptyNoTest ==
  /\ mode = "script"
  /\ pc = "checkEmpty"
  /\ pc' = "newTree"
  /\ error' = error
  /\ UNCHANGED <<mode, csv, leafData, merkleTree, totalSupply, json, outFile, writes, call, previous,
                 claims, events>>

\* setupAirdrop: if (leafData.length === 0) throw
CheckEmpty ==
  /\ mode = "script"
  /\ pc = "checkEmpty"
  /\ IF Len(leafData) = 0
     THEN /\ pc' = "aborted"
          /\ error' = [message |-> "CSV contains no valid entries"]
     ELSE /\ pc' = "newTree"
          /\ error' = error
  /\ UNCHANGED <<mode, csv, leafData, merkleTree, totalSupply, json, outFile, writes, call, previous,
                 claims, events>>

\* setupAirdrop: const tree = new MerkleTree(leafData)
NewTree ==
  /\ mode = "script"
  /\ pc = "newTree"
  /\ LET r == MerkleTreeNew(leafData)
     IN  IF r.ok
         THEN /\ merkleTree' = r.val
              /\ pc' = "totalSupply"
              /\ error' = error
         ELSE /\ merkleTree' = merkleTree
              /\ pc' = "aborted"
              /\ error' = r.err
  /\ UNCHANGED <<mode, csv, leafData, totalSupply, json, outFile, writes, call, previous,
                 claims, events>>

\* setupAirdrop: const totalSupply = leafData.reduce(...), and the return
TotalSupply ==
  /\ mode = "script"
  /\ pc = "totalSupply"
  /\ totalSupply' = SumValues(leafData, Len(leafData))
  /\ pc' = "mkdir"
  /\ UNCHANGED <<mode, csv, leafData, merkleTree, json, outFile, writes, error, call, previous,
                 claims, events>>

\* mkdirSync followed by the creation of the still empty output file
MkDirAndCreateFile(ok) ==
  /\ mode = "script"
  /\ pc = "mkdir"
  /\ IF ok
     THEN /\ pc' = "json"
          /\ error' = error
          /\ outFile' = <<>>
     ELSE /\ pc' = "aborted"
          /\ error' = [message |-> "EACCES: permission denied, mkdir"]
          /\ outFile' = outFile
  /\ UNCHANGED <<mode, csv, leafData, merkleTree, totalSupply, json, writes, call, previous,
                 claims, events>>

\* entry point: fs.mkdirSync(outDir, { recursive: true }), which the file
\* system lets succeed or fail
MkDir(ok) ==
  /\ mode = "script"
  /\ pc = "mkdir"
  /\ IF ok
     THEN /\ pc' = "json"
          /\ error' = error
     ELSE /\ pc' = "aborted"
          /\ error' = [message |-> "EACCES: permission denied, mkdir"]
  /\ UNCHANGED <<mode, csv, leafData, merkleTree, totalSupply, json, outFile, writes, call, previous,
                 claims, events>>

\* the object `json` with a field that counts the runs made so far
AssembleJsonStamped ==
  /\ mode = "script"
  /\ pc = "json"
  /\ IF \A i \in 0..(Len(leafData) - 1) : getProof(merkleTree, i).ok
     THEN /\ json' = [root |-> JsonOf(leafData, merkleTree, totalSupply).root,
                      totalSupply |-> JsonOf(leafData, merkleTree, totalSupply).totalSupply,
                      leaves |-> JsonOf(leafData, merkleTree, totalSupply).leaves,
                      run |-> Len(previous)]
          /\ pc' = "write"
          /\ error' = error
     ELSE /\ json' = json
          /\ pc' = "aborted"
          /\ error' = [message |-> "Leaf index out of bounds."]
  /\ UNCHANGED <<mode, csv, leafData, merkleTree, totalSupply, outFile, writes, call, previous,
                 claims, events>>

\* entry point: const json = { root, totalSupply, leaves }
AssembleJson ==
  /\ mode = "script"
  /\ pc = "json"
  /\ IF \A i \in 0..(Len(leafData) - 1) : getProof(merkleTree, i).ok
     THEN /\ json' = JsonOf(leafData, merkleTree, totalSupply)
          /\ pc' = "write"
          /\ error' = error
     ELSE /\ json' = json
          /\ pc' = "aborted"
          /\ error' = [message |-> "Leaf index out of bounds."]
  /\ UNCHANGED <<mode, csv, leafData, merkleTree, totalSupply, outFile, writes, call, previous,
                 claims, events>>

\* entry point: fs.writeFileSync(outFile, JSON.stringify(json, null, 2)),
\* which the file system lets succeed, or fail when it opens the file
WriteFile(ok) ==
  /\ mode = "script"
  /\ pc = "write"
  /\ IF ok
     THEN /\ outFile' = json
          /\ writes' = writes + 1
          /\ pc' = "done"
          /\ error' = error
     ELSE /\ outFile' = outFile
          /\ writes' = writes
          /\ pc' = "aborted"
          /\ error' = [message |-> "EACCES: permission denied, open"]
  /\ UNCHANGED <<mode, csv, leafData, merkleTree, totalSupply, json, call, previous,
                 claims, events>>

\* the script is started once more on the same input file: a new process,
\* whose variables start afresh, on the file system the earlier run left
Rerun ==
  /\ mode = "script"
  /\ pc \in {"done", "aborted"}
  /\ Len(previous) < MaxRuns - 1
  /\ previous' = Append(previous, [pc |-> pc, leafData |-> leafData,
                                   merkleTree |-> merkleTree,
                                   totalSupply |-> totalSupply, json |-> json,
                                   outFile |-> outFile, error |-> error])
  /\ pc' = "loadCSV"
  /\ leafData' = <<>>
  /\ merkleTree' = NoTree
  /\ totalSupply' = NoValue
  /\ json' = NoValue
  /\ writes' = 0
  /\ error' = NoError
  /\ UNCHANGED <<mode, csv, outFile, call,
                 claims, events>>

Next ==
  \/ LoadCSV
  \/ CheckEmpty
  \/ NewTree
  \/ TotalSupply
  \/ \E ok \in BOOLEAN : MkDir(ok)
  \/ AssembleJson
  \/ \E ok \in BOOLEAN : WriteFile(ok)

Spec == Init /\ [][Next]_vars

\* runs of the script one after the other on one input file
RerunNext ==
  \/ Next
  \/ Rerun

RerunSpec == Init /\ [][RerunNext]_vars

(***************************************************************************)
(* The ContractCard component (contract-card.tsx): handleClaim             *)
(***************************************************************************)

\* an entry of the log of an invocation of handleClaim: the call made or
\* the answer received, and its data
Event(what, data) == [what |-> what, data |-> data]

\* const callData = { value, proof, index } of handleClaim
callData ==
  [value |-> <<airdrop_amount_alice, Zero, Zero, Zero>>,
   proof |-> <<leaf_bob>>,
   index |-> Zero]

\* const txArgs = { data, gasLimit, storageDepositLimit }
txArgs(queryResult) ==
  [data |-> callData,
   gasLimit |-> queryResult.gasRequired,
   storageDepositLimit |-> queryResult.storageDeposit]

\* what `await sdk.addressIsMapped(signerAddress)` resumes with
MappedAnswers == {"mapped", "notMapped", "rejected"}

\* what `await contract.query("claim", ...)` resumes with: a result with
\* success and the estimates, a result without success, or an exception
QueryResults ==
  { [settled |-> "fulfilled", success |-> TRUE, gasRequired |-> 1, storageDeposit |-> 0],
    [settled |-> "fulfilled", success |-> TRUE, gasRequired |-> 2, storageDeposit |-> 1],
    [settled |-> "fulfilled", success |-> FALSE, gasRequired |-> 0, storageDeposit |-> 0],
    [settled |-> "rejected", success |-> FALSE, gasRequired |-> 0, storageDeposit |-> 0] }

\* how the promise of signAndSubmit settles: fulfilled with tx.ok, fulfilled
\* with a dispatch error, or rejected (signature refused, connection lost)
TxOutcomes == {"ok", "dispatchError", "rejected"}

\* the mounted component: its effect (invocation 0) has called
\* queryContract once
CardInit ==
  /\ mode = "card"
  /\ pc = "mounted"
  /\ csv = NoValue
  /\ leafData = <<>>
  /\ merkleTree = NoTree
  /\ totalSupply = NoValue
  /\ json = NoValue
  /\ outFile = NoFile
  /\ writes = 0
  /\ error = NoError
  /\ call = NoCall
  /\ previous = <<>>
  /\ claims = <<>>
  /\ events = <<0>>

\* useEffect(() => { queryContract() }, [queryContract, signerAddress]):
\* api, chain or the account changed
Effect ==
  /\ mode = "card"
  /\ Cardinality({n \in 1..Len(events) : events[n] = 0}) <= MaxEffects
  /\ events' = Append(events, 0)
  /\ UNCHANGED <<mode, pc, csv, leafData, merkleTree, totalSupply, json, outFile,
                 writes, error, call, previous, claims>>

\* a click on "Claim Airdrop": handleClaim up to its first await, with the
\* values the hooks gave this render
HandleClaim(api, chain, signer) ==
  /\ mode = "card"
  /\ Len(claims) < MaxClaims
  /\ LET hooks == [api |-> api, chain |-> chain, signer |-> signer]
     IN  IF ~api \/ ~chain \/ ~signer
         THEN claims' = Append(claims, [pc |-> "returned",
                                        log |-> << Event("handleClaim", hooks) >>])
         ELSE claims' = Append(claims, [pc |-> "addressIsMapped",
                                        log |-> << Event("handleClaim", hooks),
                                                   Event("addressIsMapped", NoValue) >>])
  /\ UNCHANGED <<mode, pc, csv, leafData, merkleTree, totalSupply, json, outFile,
                 writes, error, call, previous, events>>

\* handleClaim of a notMapped account going on as if it were mapped
AddressIsMappedNoReturn(id, isMapped) ==
  /\ mode = "card"
  /\ id \in 1..Len(claims)
  /\ claims[id].pc = "addressIsMapped"
  /\ IF isMapped = "rejected"
     THEN claims' = [claims EXCEPT ![id].pc = "returned",
                                   ![id].log = Append(@, Event("rejected", NoValue))]
     ELSE claims' = [claims EXCEPT
                       ![id].pc = "query",
                       ![id].log = @ \o (IF isMapped = "mapped"
                                         THEN << Event("mapped", NoValue) >>
                                         ELSE << Event("notMapped", NoValue),
                                                 Event("toast.error", NoValue) >>)
                                     \o << Event("query", callData) >>]
  /\ UNCHANGED <<mode, pc, csv, leafData, merkleTree, totalSupply, json, outFile,
                 writes, error, call, previous, events>>

\* handleClaim from the answer of sdk.addressIsMapped to its second await
AddressIsMapped(id, isMapped) ==
  /\ mode = "card"
  /\ id \in 1..Len(claims)
  /\ claims[id].pc = "addressIsMapped"
  /\ IF isMapped = "mapped"
     THEN claims' = [claims EXCEPT ![id].pc = "query",
                                   ![id].log = @ \o << Event("mapped", NoValue),
                                                       Event("query", callData) >>]
     ELSE IF isMapped = "notMapped"
     THEN claims' = [claims EXCEPT ![id].pc = "returned",
                                   ![id].log = @ \o << Event("notMapped", NoValue),
                                                       Event("toast.error", NoValue) >>]
     ELSE claims' = [claims EXCEPT ![id].pc = "returned",
                                   ![id].log = Append(@, Event("rejected", NoValue))]
  /\ UNCHANGED <<mode, pc, csv, leafData, merkleTree, totalSupply, json, outFile,
                 writes, error, call, previous, events>>

\* handleClaim from the answer of the dry run contract.query("claim", ...)
\* to its end: contract.send("claim", txArgs).signAndSubmit(signer)
QueryClaim(id, queryResult) ==
  /\ mode = "card"
  /\ id \in 1..Len(claims)
  /\ claims[id].pc = "query"
  /\ IF queryResult.settled = "rejected"
     THEN claims' = [claims EXCEPT ![id].pc = "returned",
                                   ![id].log = Append(@, Event("rejected", NoValue))]
     ELSE IF ~queryResult.success
     THEN claims' = [claims EXCEPT ![id].pc = "returned",
                                   ![id].log = @ \o << Event("queryResult", queryResult),
                                                       Event("toast.error", NoValue) >>]
     ELSE claims' = [claims EXCEPT
                       ![id].pc = "submitted",
                       ![id].log = @ \o << Event("queryResult", queryResult),
                                           Event("signAndSubmit", txArgs(queryResult)) >>]
  /\ UNCHANGED <<mode, pc, csv, leafData, merkleTree, totalSupply, json, outFile,
                 writes, error, call, previous, events>>

\* the promise of signAndSubmit settles: the .then callback calls
\* queryContract() and throws if !tx.ok; a rejection skips the callback
SignAndSubmit(id, tx) ==
  /\ mode = "card"
  /\ id \in 1..Len(claims)
  /\ claims[id].pc = "submitted"
  /\ claims' = [claims EXCEPT
                  ![id].pc = "settled",
                  ![id].log = @ \o
                    (IF tx = "ok"
                     THEN << Event("tx", tx), Event("queryContract", NoValue) >>
                     ELSE IF tx = "dispatchError"
                     THEN << Event("tx", tx), Event("queryContract", NoValue),
                             Event("toast.error", NoValue) >>
                     ELSE << Event("tx", tx), Event("toast.error", NoValue) >>)]
  /\ events' = IF tx = "rejected" THEN events ELSE Append(events, id)
  /\ UNCHANGED <<mode, pc, csv, leafData, merkleTree, totalSupply, json, outFile,
                 writes, error, call, previous>>

CardNext ==
  \/ Effect
  \/ \E api \in BOOLEAN, chain \in BOOLEAN, signer \in BOOLEAN : HandleClaim(api, chain, signer)
  \/ \E id \in 1..MaxClaims, isMapped \in MappedAnswers : AddressIsMapped(id, isMapped)
  \/ \E id \in 1..MaxClaims, queryResult \in QueryResults : QueryClaim(id, queryResult)
  \/ \E id \in 1..MaxClaims, tx \in TxOutcomes : SignAndSubmit(id, tx)

CardSpec == CardInit /\ [][CardNext]_vars

(***************************************************************************)
(* Properties of MerkleTree, checked under TreeSpec                        *)
(***************************************************************************)

ValidIndexes == 0..(Len(leafData) - 1)

\* the digest of input record i
LeafOf(i) == encodeLeaf(At(leafData, i).recipient, At(leafData, i).value).val

\* the last call was verifyProof(leaf, getProof(i), index, tree.root)
VerifiedWithProofOf(i, leaf, index) ==
  /\ call.op = "verifyProof"
  /\ call.index = index
  /\ call.proof = getProof(merkleTree, i).val
  /\ call.root = merkleTree.root
  /\ call.leaf = leaf

\* some level of the tree has odd length greater than one
HasOddLevel ==
  \E k \in 1..Len(merkleTree.tree) :
    Len(merkleTree.tree[k]) > 1 /\ Len(merkleTree.tree[k]) % 2 = 1

\* C1: for every non-empty leaf list and every valid index i,
\* verifyProof(encodeLeaf(record i), getProof(i), i, root) returns true,
\* odd-length levels included
C1_ProofRoundTrip ==
  call.op = "verifyProof"
  => \A i \in ValidIndexes :
       VerifiedWithProofOf(i, LeafOf(i), i) => call.result = Ok(TRUE)

\* a five-leaf tree (levels of length 5 and 3) verified its unpaired last leaf
C1_Witness ==
  /\ pc = "ready"
  /\ Len(leafData) = 5
  /\ HasOddLevel
  /\ VerifiedWithProofOf(4, LeafOf(4), 4)
  /\ call.result = Ok(TRUE)

\* two records differ in recipient (as decoded address) or in amount
Differs(r, s) ==
  \/ getBytes(r.recipient).val # getBytes(s.recipient).val
  \/ r.value # s.value

\* C2: tamper sensitivity: the digest of a record that differs from record i
\* in recipient or amount never verifies with the proof, index and root of i
C2_TamperSensitivity ==
  call.op = "verifyProof"
  => \A i \in ValidIndexes : \A r \in LeafRecords :
       ( /\ VerifiedWithProofOf(i, encodeLeaf(r.recipient, r.value).val, i)
         /\ Differs(r, At(leafData, i)) )
       => call.result = Ok(FALSE)

\* bob's own proof was used with the digest of (bob, alice's amount)
C2_Witness ==
  /\ pc = "ready"
  /\ Len(leafData) = 3
  /\ At(leafData, 1).recipient = bob_account
  /\ VerifiedWithProofOf(1, encodeLeaf(bob_account, airdrop_amount_alice).val, 1)
  /\ call.result = Ok(FALSE)

\* bit k of the index j
Bit(j, k) == (j \div (2 ^ k)) % 2

\* the node of level k on the path from leaf i to the root
PathNode(i, k) == At(At(merkleTree.tree, k), i \div (2 ^ k))

\* the path of leaf i passes through the unpaired last element of an
\* odd-length level
OnUnpairedNode(i) ==
  \E k \in 0..(Len(merkleTree.tree) - 2) :
    /\ Len(At(merkleTree.tree, k)) % 2 = 1
    /\ i \div (2 ^ k) = Len(At(merkleTree.tree, k)) - 1

\* C3 as stated: a valid leaf/proof pair verifies with no index j other
\* than its own i, unless the path of i passes through the unpaired last
\* element of an odd-length level
C3_AsStated ==
  call.op = "verifyProof"
  => \A i \in ValidIndexes : \A j \in 0..MaxIndex :
       ( /\ j # i
         /\ VerifiedWithProofOf(i, LeafOf(i), j)
         /\ ~OnUnpairedNode(i) )
       => call.result = Ok(FALSE)

\* C3 amended: the pair of leaf i verifies with index j exactly when, at
\* every level k below the root where bit k of j differs from bit k of i,
\* the k-th sibling of the proof equals the node on the path of i (an
\* unpaired last element, or two equal sibling digests); so it is rejected
\* for every other j, and bits of j from len(proof) on are not looked at
C3_IndexSensitivity ==
  call.op = "verifyProof"
  => \A i \in ValidIndexes : \A j \in 0..MaxIndex :
       VerifiedWithProofOf(i, LeafOf(i), j)
       => ( call.result.val
            <=> \A k \in 0..(Len(call.proof) - 1) :
                  Bit(j, k) # Bit(i, k) => At(call.proof, k) = PathNode(i, k) )

\* the proof of leaf 0 of a four-leaf tree was rejected with index 2
C3_Witness ==
  /\ pc = "ready"
  /\ Len(leafData) = 4
  /\ At(leafData, 0) # At(leafData, 1)
  /\ VerifiedWithProofOf(0, LeafOf(0), 2)
  /\ call.result = Ok(FALSE)

\* C8 as stated: building a tree from an empty leaf sequence fails and
\* produces no MerkleTree value
C8_AsStated ==
  (call.op = "new" /\ leafData = <<>>) => (pc = "aborted" /\ merkleTree = NoTree)

\* C8 amended: building a tree from an empty leaf sequence does not fail:
\* it yields a MerkleTree with no leaves and no levels whose root is null,
\* and a null root is produced for zero leaves only
C8_EmptyTree ==
  /\ (call.op = "new" /\ leafData = <<>>)
     => /\ pc = "ready"
        /\ error = NoError
        /\ merkleTree = [leaves |-> <<>>, tree |-> <<>>, root |-> null]
  /\ (call.op = "new" /\ pc = "ready" /\ leafData # <<>>)
     => /\ merkleTree.root # null
        /\ At(merkleTree.tree, 0) = merkleTree.leaves

\* the constructor returned for the empty list
C8_Witness ==
  /\ call.op = "new"
  /\ leafData = <<>>
  /\ pc = "ready"
  /\ merkleTree.root = null

\* the number of positions of level 0
NumLeaves == IF merkleTree.tree = <<>> THEN 0 ELSE Len(At(merkleTree.tree, 0))

\* C9: getProof(index) throws the out-of-bounds error exactly for the
\* indexes that are no position of level 0 (every index on an empty tree),
\* and returns a proof for every index inside the range
C9_IndexOutOfRange ==
  call.op = "getProof"
  => IF 0 <= call.index /\ call.index < NumLeaves
     THEN call.result.ok
     ELSE call.result = Throw([message |-> "Leaf index out of bounds."])

\* getProof(0) threw on a tree built from zero leaves
C9_Witness ==
  /\ call.op = "getProof"
  /\ leafData = <<>>
  /\ call.index = 0
  /\ ~call.result.ok

\* getProof returned a proof for the last valid index of a four-leaf tree
C9_WitnessInRange ==
  /\ call.op = "getProof"
  /\ Len(leafData) = 4
  /\ call.index = 3
  /\ call.result.ok

\* the number of bytes hashed into a digest
HashedLength(digest) == 256 * digest[1] + digest[2]

\* C10: encodeLeaf returns a digest only for a recipient that decodes to
\* exactly 20 bytes, and the digest is computed over 20 + 32 = 52 bytes
C10_AsStated ==
  (call.op = "encodeLeaf" /\ call.result.ok)
  => /\ Len(getBytes(call.recipient).val) = 20
     /\ HashedLength(call.result.val) = 52

(***************************************************************************)
(* Properties of the artifact script, checked under Spec                   *)
(***************************************************************************)

Terminated == pc \in {"done", "aborted"}

\* the address of a row with the optional 0x prefix supplied
Prefixed(address) ==
  IF startsWith(address, <<"0", "x">>) THEN address ELSE <<"0", "x">> \o address

\* a decimal string: one or more decimal digits
IsDecimal(amount) ==
  /\ amount # <<>>
  /\ \A i \in 1..Len(amount) : DigitVal(amount[i]) < 10

\* the row is malformed: its address is no 20-byte hex value, or its amount
\* is no non-negative integer, or its amount is above 2^256 - 1
Malformed(row) ==
  \/ ~getBytes(Prefixed(row.address)).ok
  \/ Len(getBytes(Prefixed(row.address)).val) # 20
  \/ ~IsDecimal(row.amount)
  \/ Len(BigInt(row.amount).val.mag) > 32

MalformedRows == {k \in 1..Len(csv.rows) : Malformed(csv.rows[k])}

\* C4: a malformed row at any position aborts the whole run with an error
\* that identifies the index of the offending row, and no artifact is written
C4_AsStated ==
  (mode = "script" /\ csv.readable /\ MalformedRows # {})
  => /\ outFile = NoFile
     /\ pc # "done"
     /\ pc = "aborted"
        => /\ "index" \in DOMAIN error
           /\ error.index \in {k - 1 : k \in MalformedRows}

C5_WitnessAbort ==
  /\ mode = "script"
  /\ pc = "aborted"
  /\ Len(csv.rows) = 3
  /\ csv.rows[3].amount = <<"a","b","c">>
  /\ outFile = NoFile

\* the tree built from all rows of the input file
TreeOfRows == MerkleTreeNew([k \in 1..Len(csv.rows) |-> LoadRow(csv.rows[k]).val]).val

\* C6: entry k of the emitted artifact carries the recipient and the value
\* of input row k, in input order; its proof is getProof(k) of the tree
\* built from all rows and verifies with index k against the artifact root;
\* no entry is reordered, dropped, merged or given another entry's proof
C6_EntriesMatchRows ==
  outFile # NoFile
  => /\ Len(outFile.leaves) = Len(csv.rows)
     /\ getBytes(outFile.root).val = TreeOfRows.root
     /\ \A k \in 1..Len(outFile.leaves) :
          LET entry == outFile.leaves[k]
              row == csv.rows[k]
              proof == [n \in 1..Len(entry.proof) |-> getBytes(entry.proof[n]).val]
          IN  /\ getBytes(entry.recipient) = getBytes(Prefixed(row.address))
              /\ BigInt(entry.value) = BigInt(row.amount)
              /\ Ok(proof) = getProof(TreeOfRows, k - 1)
              /\ verifyProof(encodeLeaf(entry.recipient, BigInt(entry.value).val).val,
                             proof, k - 1, getBytes(outFile.root).val) = Ok(TRUE)

\* an artifact of three different rows, the third one unpaired, was written
C6_Witness ==
  /\ outFile # NoFile
  /\ Len(outFile.leaves) = 3
  /\ outFile.leaves[1].recipient = alice_account
  /\ outFile.leaves[2].recipient = bob_account
  /\ outFile.leaves[3].recipient = ShortAddress
  /\ outFile.leaves[3].value = <<"7">>
  /\ Len(outFile.leaves[3].proof) = 2

\* the exact sum of the amounts of all rows
SumOfRows == SumValues([k \in 1..Len(csv.rows) |-> [value |-> BigInt(csv.rows[k].amount).val]],
                       Len(csv.rows))

\* every amount is a non-negative integer of at most 256 bits
AmountsInRange ==
  \A k \in 1..Len(csv.rows) :
    IsDecimal(csv.rows[k].amount) /\ Len(BigInt(csv.rows[k].amount).val.mag) <= 32

\* C7: when the sum of the amounts exceeds 2^256 - 1 the run aborts and
\* writes nothing; otherwise the totalSupply of the artifact is the exact sum
C7_AsStated ==
  (mode = "script" /\ csv.readable /\ AmountsInRange)
  => IF Len(SumOfRows.mag) > 32
     THEN outFile = NoFile /\ pc # "done"
     ELSE outFile # NoFile => BigInt(outFile.totalSupply).val = SumOfRows

\* C11: an input with a header and zero data rows aborts with the
\* empty-distribution error before any tree is built, and nothing is written
C11_EmptyDistribution ==
  (mode = "script" /\ csv.readable /\ csv.rows = <<>>)
  => /\ pc \in {"loadCSV", "checkEmpty", "aborted"}
     /\ merkleTree = NoTree
     /\ outFile = NoFile
     /\ writes = 0
     /\ pc = "aborted" => error = [message |-> "CSV contains no valid entries"]

\* the run over a file of zero data rows aborted
C11_Witness ==
  /\ mode = "script"
  /\ csv.readable
  /\ csv.rows = <<>>
  /\ leafData = <<>>
  /\ pc = "aborted"
  /\ error = [message |-> "CSV contains no valid entries"]

\* the run has reached the point where the tree, the object json, the file
\* are there
TreeBuilt == pc \in {"totalSupply", "mkdir", "json", "write", "done"}
JsonAssembled == pc \in {"write", "done"}

\* C12: determinism: a run given the rows of an earlier run, in the same
\* order, ends in the same way at loadCSV, builds the identical tree (root,
\* levels, leaves), the identical total and the identical proofs, and emits
\* the identical artifact, whatever the earlier run left behind
C12_Determinism ==
  \A n \in 1..Len(previous) :
    LET run == previous[n]
    IN  /\ (TreeBuilt /\ run.merkleTree # NoTree) => merkleTree = run.merkleTree
        /\ (pc = "checkEmpty" \/ TreeBuilt) => leafData = run.leafData
        /\ (pc \in {"mkdir", "json", "write", "done"} /\ run.totalSupply # NoValue)
           => totalSupply = run.totalSupply
        /\ (JsonAssembled /\ run.json # NoValue) => json = run.json
        /\ (pc = "done" /\ run.pc = "done") => outFile = run.outFile
        /\ (pc = "aborted" /\ run.merkleTree = NoTree) => error = run.error
        /\ (pc = "done" /\ run.outFile # NoFile)
           => \A k \in 1..Len(outFile.leaves) :
                outFile.leaves[k].proof = run.outFile.leaves[k].proof

\* a second run over three rows emitted its artifact over the one the
\* first run had written
C12_Witness ==
  /\ Len(previous) = 1
  /\ previous[1].pc = "done"
  /\ previous[1].outFile # NoFile
  /\ Len(csv.rows) = 3
  /\ pc = "done"
  /\ writes = 1
  /\ outFile = previous[1].outFile

\* the LeafData read back from the entries of the artifact, in stored order
ArtifactPairs ==
  [k \in 1..Len(outFile.leaves) |->
     [recipient |-> outFile.leaves[k].recipient,
      value |-> BigInt(outFile.leaves[k].value).val]]

\* C13: round trip: the tree rebuilt from the (recipient, value) pairs of an
\* emitted artifact, in stored order and without its proofs, has the root
\* the artifact stores
C13_RoundTrip ==
  outFile # NoFile
  => /\ \A k \in 1..Len(outFile.leaves) : BigInt(outFile.leaves[k].value).ok
     /\ MerkleTreeNew(ArtifactPairs).ok
     /\ MerkleTreeNew(ArtifactPairs).val.root # null
     /\ getBytes(outFile.root) = Ok(MerkleTreeNew(ArtifactPairs).val.root)
     /\ outFile.root = HexOf(MerkleTreeNew(ArtifactPairs).val.root)

\* an artifact of three rows was emitted, one with the amount 2^256 - 1 and
\* one whose address had no 0x prefix in the input
C13_Witness ==
  /\ pc = "done"
  /\ outFile # NoFile
  /\ Len(outFile.leaves) = 3
  /\ outFile.leaves[1].value = MaxUint256Text
  /\ outFile.leaves[2].recipient = bob_account
  /\ csv.rows[2].address # bob_account
  /\ outFile.leaves[3].value = <<"1","0","0","0","0","0","0","0","0">>

\* level k of the tree, counted from the leaves
Level(k) == At(merkleTree.tree, k)

\* C14: for every non-empty leaf sequence level 0 is the leaf digests in
\* input order; level k+1 has ceil(len(level k) / 2) elements, element j
\* being hashPair(level_k[2j], level_k[2j+1]) when 2j+1 exists and
\* hashPair(level_k[2j], level_k[2j]) for the unpaired last element; the
\* last level has length 1 and its element is the root
C14_LevelInvariant ==
  (mode = "tree" /\ call.op = "new" /\ pc = "ready" /\ leafData # <<>>)
  => /\ Len(merkleTree.tree) >= 1
     /\ Level(0) = [i \in 1..Len(leafData) |->
                      encodeLeaf(leafData[i].recipient, leafData[i].value).val]
     /\ Level(0) = merkleTree.leaves
     /\ \A k \in 0..(Len(merkleTree.tree) - 2) :
          /\ Len(Level(k)) > 1
          /\ Len(Level(k + 1)) = (Len(Level(k)) + 1) \div 2
          /\ \A j \in 0..(Len(Level(k + 1)) - 1) :
               At(Level(k + 1), j) =
                 IF 2 * j + 1 < Len(Level(k))
                 THEN hashPair(At(Level(k), 2 * j), At(Level(k), 2 * j + 1))
                 ELSE hashPair(At(Level(k), 2 * j), At(Level(k), 2 * j))
     /\ Len(Level(Len(merkleTree.tree) - 1)) = 1
     /\ merkleTree.root = At(Level(Len(merkleTree.tree) - 1), 0)

\* a tree of five leaves was built: levels of length 5, 3, 2 and 1, the
\* last element of level 1 being the fifth leaf hashed with itself
C14_Witness ==
  /\ mode = "tree"
  /\ call.op = "new"
  /\ pc = "ready"
  /\ Len(leafData) = 5
  /\ Len(merkleTree.tree) = 4
  /\ Len(Level(1)) = 3
  /\ At(Level(1), 2) = hashPair(At(Level(0), 4), At(Level(0), 4))
  /\ Len(Level(2)) = 2

\* x XOR 1
Xor1(x) == IF x % 2 = 0 THEN x + 1 ELSE x - 1

\* C15: for every valid index i, getProof(i) has one element per level
\* below the root level, ordered leaf to root, the k-th one being
\* level_k[(i div 2^k) XOR 1] when that position exists in level k and
\* level_k[i div 2^k] otherwise; for two leaves getProof(0) = [l1] and
\* getProof(1) = [l0], for three leaves getProof(2) = [l2, hashPair(l0, l1)]
C15_ProofShape ==
  (call.op = "getProof" /\ call.result.ok)
  => LET i == call.index
         proof == call.result.val
     IN  /\ Len(proof) = Len(merkleTree.tree) - 1
         /\ Len(leafData) = 1 => proof = <<>>
         /\ \A k \in 0..(Len(proof) - 1) :
              LET at == i \div (2 ^ k)
              IN  At(proof, k) = IF Xor1(at) < Len(Level(k))
                                 THEN At(Level(k), Xor1(at))
                                 ELSE At(Level(k), at)
         /\ (Len(leafData) = 2 /\ i = 0) => proof = <<LeafOf(1)>>
         /\ (Len(leafData) = 2 /\ i = 1) => proof = <<LeafOf(0)>>
         /\ (Len(leafData) = 3 /\ i = 2)
            => proof = <<LeafOf(2), hashPair(LeafOf(0), LeafOf(1))>>

\* getProof(2) returned [l2, hashPair(l0, l1)] on a tree of three leaves
C15_Witness ==
  /\ call.op = "getProof"
  /\ call.index = 2
  /\ Len(leafData) = 3
  /\ call.result = Ok(<<LeafOf(2), hashPair(LeafOf(0), LeafOf(1))>>)

\* C17: after construction no getProof or verifyProof call, a getProof
\* that throws included, changes the leaves, a level or the root of the
\* tree, so getProof(i) returns the proof it returns on the tree as it was
\* before the call, which is the tree as built, whichever calls came before
C17_TreeUnchanged ==
  [][ (mode = "tree" /\ pc = "ready")
      => /\ pc' = "ready"
         /\ merkleTree' = merkleTree
         /\ leafData' = leafData
         /\ call'.op \in {"getProof", "verifyProof"}
         /\ call'.op = "getProof"
            => call'.result = getProof(merkleTree, call'.index) ]_vars

\* on a tree of five leaves a getProof and then a verifyProof were made,
\* and the tree is the tree as built
C17_Witness ==
  /\ mode = "tree"
  /\ pc = "ready"
  /\ Len(leafData) = 5
  /\ call.op = "verifyProof"
  /\ call.proofIndex = 4
  /\ merkleTree = MerkleTreeNew(leafData).val
  /\ getProof(merkleTree, 4) = Ok(call.proof)

\* C19: no leaf/internal-node separation: for every tree of at least two
\* levels, every valid leaf index i and every level k from 1 to the root
\* level, verifyProof(level_k[i div 2^k], getProof(i) without its first k
\* elements, i div 2^k, root) returns true
C19_NodeAcceptedAsLeaf ==
  call.op = "verifyProof"
  => \A i \in ValidIndexes : \A k \in 1..(Len(merkleTree.tree) - 1) :
       ( /\ call.index = i \div (2 ^ k)
         /\ Len(call.proof) = Len(merkleTree.tree) - 1 - k
         /\ call.leaf = PathNode(i, k)
         /\ call.proof = SubSeq(getProof(merkleTree, i).val, k + 1,
                                Len(merkleTree.tree) - 1)
         /\ call.root = merkleTree.root )
       => call.result = Ok(TRUE)

\* on a tree of five leaves the node hashPair(l4, l4) of level 1 was
\* accepted at index 2 with the two upper siblings of the proof of leaf 4
C19_Witness ==
  /\ mode = "tree"
  /\ Len(leafData) = 5
  /\ call.op = "verifyProof"
  /\ call.leaf = hashPair(LeafOf(4), LeafOf(4))
  /\ call.index = 2
  /\ Len(call.proof) = 2
  /\ call.proof = SubSeq(getProof(merkleTree, 4).val, 2, 3)
  /\ call.result = Ok(TRUE)

\* the leaf list with its last record appended once more
WithLastRepeated == Append(leafData, leafData[Len(leafData)])

\* the leaf list has odd length n >= 3
OddList == Len(leafData) >= 3 /\ Len(leafData) % 2 = 1

\* C20: self-duplication collision: for every leaf sequence L of odd length
\* n >= 3 the tree built from L and the tree built from L with its last
\* leaf appended once more have the same root, so two different lists share
\* one root, and the proof of the last leaf of L verifies at index n too
C20_SelfDuplicationCollision ==
  /\ (mode = "tree" /\ call.op = "new" /\ pc = "ready" /\ OddList)
     => /\ MerkleTreeNew(WithLastRepeated).ok
        /\ MerkleTreeNew(WithLastRepeated).val.root = merkleTree.root
        /\ MerkleTreeNew(WithLastRepeated).val.leaves # merkleTree.leaves
  /\ (mode = "tree" /\ call.op = "verifyProof" /\ OddList)
     => ( VerifiedWithProofOf(Len(leafData) - 1, LeafOf(Len(leafData) - 1), Len(leafData))
          => call.result = Ok(TRUE) )

\* on a tree of three leaves the proof of leaf 2 was accepted at index 3,
\* and the list of four leaves has the root of this tree
C20_Witness ==
  /\ mode = "tree"
  /\ Len(leafData) = 3
  /\ call.op = "verifyProof"
  /\ call.proofIndex = 2
  /\ call.leaf = LeafOf(2)
  /\ call.index = 3
  /\ call.result = Ok(TRUE)
  /\ MerkleTreeNew(WithLastRepeated).val.root = call.root

(***************************************************************************)
(* Properties of verifyProof, checked under VerifySpec                     *)
(***************************************************************************)

\* the reference fold: the value computed after the first k siblings
FoldAfter(leaf, proof, index) ==
  LET computed[k \in 0..Len(proof)] ==
        IF k = 0 THEN leaf
        ELSE IF (index \div (2 ^ (k - 1))) % 2 = 0
             THEN hashPair(computed[k - 1], proof[k])
             ELSE hashPair(proof[k], computed[k - 1])
  IN  computed[Len(proof)]

\* a and b have the same length and the same byte at every position
SameBytes(a, b) == Len(a) = Len(b) /\ \A n \in 1..Len(a) : a[n] = b[n]

\* C16: verifyProof(leaf, proof, index, root) is the reference fold: from
\* computed = leaf, per sibling in proof order hashPair(computed, sibling)
\* for an even and hashPair(sibling, computed) for an odd current index,
\* then the index halved; true exactly when the final value equals root in
\* length and in every byte; whatever tree exists is not looked at
C16_ReferenceFold ==
  (mode = "verify" /\ call.op = "verifyProof")
  => call.result = Ok(SameBytes(FoldAfter(call.leaf, call.proof, call.index), call.root))

\* bob's digest was accepted as the right child below node_ab, which in
\* turn was the left child below the root, while no tree existed
C16_Witness ==
  /\ mode = "verify"
  /\ merkleTree = NoTree
  /\ call.op = "verifyProof"
  /\ call.leaf = leaf_bob
  /\ call.proof = <<leaf_alice, node_ab>>
  /\ call.index = 1
  /\ call.root = hashPair(node_ab, node_ab)
  /\ call.result = Ok(TRUE)

\* C18: verifyProof depends on the index through its lowest len(proof)
\* bits only: verifyProof(leaf, proof, i, root) =
\* verifyProof(leaf, proof, i + m * 2^len(proof), root) for every m >= 0;
\* with an empty proof the result is leaf = root for every index
C18_IndexLowBits ==
  (mode = "verify" /\ call.op = "verifyProof")
  => /\ \A m \in 0..MaxMultiple :
          verifyProof(call.leaf, call.proof,
                      call.index + m * (2 ^ Len(call.proof)), call.root) = call.result
     /\ verifyProof(call.leaf, call.proof,
                    call.index % (2 ^ Len(call.proof)), call.root) = call.result
     /\ call.proof = <<>> => call.result = Ok(call.leaf = call.root)

\* alice's digest with the one-sibling proof [leaf_bob] was accepted at
\* index 6, as it is at index 0
C18_Witness ==
  /\ mode = "verify"
  /\ call.op = "verifyProof"
  /\ call.leaf = leaf_alice
  /\ call.proof = <<leaf_bob>>
  /\ call.root = node_ab
  /\ call.index = 6
  /\ call.result = Ok(TRUE)

(***************************************************************************)
(* Properties of handleClaim, checked under CardSpec                       *)
(***************************************************************************)

\* the log of invocation id
LogOf(id) == claims[id].log

\* the positions of the entries with the given call or answer strictly
\* between positions lo and hi of the log of invocation id
Between(lo, hi, id, what) ==
  {q \in (lo + 1)..(hi - 1) : q <= Len(LogOf(id)) /\ LogOf(id)[q].what = what}

\* invocation id met a failing step before position p of its log: a hook
\* value was missing, the address was reported as not mapped, the dry run
\* did not succeed, or one of the two awaited calls threw
FailedBefore(id, p) ==
  \E q \in 1..(p - 1) :
    LET e == LogOf(id)[q]
    IN  \/ e.what \in {"notMapped", "rejected"}
        \/ e.what = "queryResult" /\ ~e.data.success
        \/ e.what = "handleClaim" /\ (~e.data.api \/ ~e.data.chain \/ ~e.data.signer)

\* C21: handleClaim submits a claim transaction only after, in this order,
\* api, chain and signer were present, the signer's address was reported as
\* mapped and a dry-run query of claim with the same call data succeeded;
\* when one of these steps fails the handler returns and submits nothing;
\* and it calls queryContract only after the submitted transaction resolved
C21_ClaimOrdering ==
  mode = "card"
  => /\ \A id \in 1..Len(claims) : \A p \in 1..Len(LogOf(id)) :
          LogOf(id)[p].what = "signAndSubmit"
          => /\ ~FailedBefore(id, p)
             /\ \E p0 \in Between(0, p, id, "handleClaim") :
                  /\ LogOf(id)[p0].data = [api |-> TRUE, chain |-> TRUE, signer |-> TRUE]
                  /\ \E p1 \in Between(p0, p, id, "mapped") :
                       \E p2 \in Between(p1, p, id, "query") :
                         /\ LogOf(id)[p2].data = LogOf(id)[p].data.data
                         /\ \E p3 \in Between(p2, p, id, "queryResult") :
                              LogOf(id)[p3].data.success
     /\ \A id \in 1..Len(claims) :
          FailedBefore(id, Len(LogOf(id)) + 1)
          => /\ claims[id].pc = "returned"
             /\ Between(0, Len(LogOf(id)) + 1, id, "signAndSubmit") = {}
             /\ Between(0, Len(LogOf(id)) + 1, id, "queryContract") = {}
             /\ \A n \in 1..Len(events) : events[n] # id
     /\ \A id \in 1..Len(claims) : \A p \in 1..Len(LogOf(id)) :
          LogOf(id)[p].what = "queryContract"
          => \E q \in Between(0, p, id, "tx") :
               /\ LogOf(id)[q].data \in {"ok", "dispatchError"}
               /\ Cardinality(Between(0, q, id, "signAndSubmit")) = 1
               /\ Between(q, p, id, "signAndSubmit") = {}
     /\ \A n \in 1..Len(events) :
          events[n] # 0
          => /\ events[n] \in 1..Len(claims)
             /\ Between(0, Len(LogOf(events[n])) + 1, events[n], "queryContract") # {}
             /\ Cardinality({k \in 1..Len(events) : events[k] = events[n]}) = 1

\* two clicks: the first claim was submitted after its dry run, its
\* transaction resolved with a dispatch error and the state was queried
\* again; the second one returned on an account that is not mapped
C21_Witness ==
  /\ mode = "card"
  /\ Len(claims) = 2
  /\ claims[1].pc = "settled"
  /\ claims[2].pc = "returned"
  /\ \E p \in Between(0, Len(LogOf(1)) + 1, 1, "signAndSubmit") :
       \E q \in Between(p, Len(LogOf(1)) + 1, 1, "tx") :
         /\ LogOf(1)[q].data = "dispatchError"
         /\ Between(q, Len(LogOf(1)) + 1, 1, "queryContract") # {}
  /\ events[Len(events)] = 1
  /\ Between(0, Len(LogOf(2)) + 1, 2, "notMapped") # {}
  /\ Between(0, Len(LogOf(2)) + 1, 2, "signAndSubmit") = {}

====
